---- MODULE Spec2Model ----
(***************************************************************************)
(* k8s-service-provider: a REST facade over the Kubernetes API (container  *)
(* Deployments and Services) and KubeVirt (VirtualMachines).               *)
(*                                                                         *)
(* The state is the cluster the service talks to (Namespaces, Deployments, *)
(* Services, VirtualMachines, Secrets) and the response of the last        *)
(* request.  One action                                                    *)
(* per HTTP handler of /api/v1/deployments; the service layer is a set of  *)
(* operators over a cluster value, composed exactly as the Go code calls   *)
(* them.                                                                   *)
(***************************************************************************)
EXTENDS Integers, Sequences, FiniteSets, TLC

(***************************************************************************)
(* Bounds                                                                  *)
(***************************************************************************)
\* A deployment id is a sequence of characters (a UUID in POST, any
\* non-empty path segment in PUT/GET/DELETE).  IDA1 and IDA2 share their
\* first eight characters, IDB does not.
IDA1 == <<"a", "a", "a", "a", "a", "a", "a", "a", "1">>
IDA2 == <<"a", "a", "a", "a", "a", "a", "a", "a", "2">>
IDB == <<"b", "b", "b", "b", "b", "b", "b", "b", "1">>
IDs == {IDA1, IDB}

NamespaceOrder == <<"default", "prod">>
NamespaceNames == {"default", "prod"}
NameOrder == <<"db", "web">>
Names == {"web"}
\* the random tails the API server appends to a generateName
Suffixes == {<<"v", "1">>, <<"v", "2">>}
\* the random tails of generated SSH secret names
SecretSuffixes == {<<"r", "1">>, <<"r", "2">>}
\* the cluster holds at most this many workloads (Deployments + VMs)
MaxWorkloads == 2
\* list requests: limit in 1..MaxLimit, offset in Offsets
MaxLimit == 2
Offsets == {0, 1}

(***************************************************************************)
(* Program constants                                                       *)
(***************************************************************************)
PrefixLen == 8
LimitCeiling == 100
DefaultNamespace == "default"
DeploymentKindContainer == "container"
DeploymentKindVM == "vm"
LabelAppID == "app-id"
LabelManagedBy == "managed-by"
LabelSSHSecretCreated == "ssh-secret-created"
ManagedByValue == "k8s-service-provider"

\* the API resources a request talks to; a request runs with a set of them
\* failing (the empty set when the API servers are healthy)
Resources == {"namespaces", "deployments", "services", "secrets", "virtualmachines"}

(***************************************************************************)
(* Errors (models/errors.go)                                               *)
(***************************************************************************)
NoError == [type |-> "nil"]

NewErrDeploymentNotFound(id) == [type |-> "ErrDeploymentNotFound", id |-> id]

NewErrMultipleDeploymentsFound(id, count, nss) ==
    [type |-> "ErrMultipleDeploymentsFound", id |-> id, count |-> count, namespaces |-> nss]

NewErrDeploymentAlreadyExists(id, ns, kind) ==
    [type |-> "ErrDeploymentAlreadyExists", id |-> id, namespace |-> ns, kind |-> kind]

\* fmt.Errorf / an error of the client libraries: none of the typed errors
\* above, also when it wraps one (the predicates below use type assertions)
Errorf(msg) == [type |-> "error", msg |-> msg]

IsNotFoundError(err) == err.type = "ErrDeploymentNotFound"

IsMultipleFoundErrorAnyTyped(err) == err.type \notin {"nil", "error"}

IsMultipleFoundError(err) == err.type = "ErrMultipleDeploymentsFound"

IsAlreadyExistsError(err) == err.type = "ErrDeploymentAlreadyExists"

IsConflictErrorOnlyMultiple(err) == err.type = "ErrMultipleDeploymentsFound"

IsConflictError(err) ==
    err.type \in {"ErrDeploymentAlreadyExists", "ErrMultipleDeploymentsFound"}

(***************************************************************************)
(* Labels and selectors                                                    *)
(***************************************************************************)
NoLabels == [k \in {} |-> ManagedByValue]

BuildDeploymentLabels(id, name) ==
    (LabelAppID :> id) @@ (LabelManagedBy :> ManagedByValue)

BuildDeploymentSelector(id) ==
    (LabelManagedBy :> ManagedByValue) @@ (LabelAppID :> id)

BuildManagedResourceSelector == (LabelManagedBy :> ManagedByValue)

\* for k, v := range deploymentLabels { labels[k] = v }
MergeLabels(user, own) ==
    [k \in (DOMAIN user) \cup (DOMAIN own) |-> IF k \in DOMAIN own THEN own[k] ELSE user[k]]

\* an equality-based label selector of the API server
Matches(labels, selector) ==
    \A k \in DOMAIN selector : k \in DOMAIN labels /\ labels[k] = selector[k]

(***************************************************************************)
(* Listing order of the API server: by namespace, then by object name      *)
(***************************************************************************)
Min(a, b) == IF a < b THEN a ELSE b

Rank(order, x) == CHOOSE i \in 1..Len(order) : order[i] = x

\* an object name is <<base, tail>>: the metadata name and the id prefix
\* (Deployments) or the generated tail (VirtualMachines)
TailOrder ==
    <<SubSeq(IDA1, 1, PrefixLen), SubSeq(IDB, 1, PrefixLen), <<"v", "1">>, <<"v", "2">>,
      <<"r", "1">>, <<"r", "2">>>>

SortKey(o) ==
    (Rank(NamespaceOrder, o.namespace) * 100) + (Rank(NameOrder, o.name[1]) * 10) + Rank(TailOrder, o.name[2])

RECURSIVE SortObjects(_)
SortObjects(S) ==
    IF S = {} THEN <<>>
    ELSE LET first == CHOOSE o \in S : \A p \in S : SortKey(o) <= SortKey(p)
         IN <<first>> \o SortObjects(S \ {first})

\* client.X(namespace).List(selector); namespace "" lists all namespaces
ListObjects(objects, namespace, selector) ==
    SortObjects({o \in objects : (namespace = "" \/ o.namespace = namespace) /\ Matches(o.labels, selector)})

(***************************************************************************)
(* The cluster and the results of service calls                            *)
(***************************************************************************)
\* a cluster value: the five collections the service reads and writes
NamespaceObject(name) == [name |-> name, labels |-> NoLabels]

NamespaceExists(c, ns) == \E n \in c.namespaces : n.name = ns

ObjectExists(objects, ns, name) == \E o \in objects : o.namespace = ns /\ o.name = name

\* A random name tail (generateName of the API server, generateRandomString):
\* random tails do not collide while an unused one is left; the least unused
\* one stands for whichever was drawn
RandomTail(tails, taken) ==
    LET free == IF tails \subseteq taken THEN tails ELSE tails \ taken
    IN CHOOSE t \in free : \A u \in free : Rank(TailOrder, t) <= Rank(TailOrder, u)

\* (cluster after the call, error returned)
Ok(c) == [c |-> c, err |-> NoError]

Fail(c, err) == [c |-> c, err |-> err]

\* a handler that panics is answered by gin.Recovery()
Panic == [type |-> "panic"]

\* if namespace == "" { namespace = "default" }
OrDefault(ns) == IF ns = "" THEN DefaultNamespace ELSE ns

(***************************************************************************)
(* ContainerService                                                        *)
(***************************************************************************)
ensureNamespace(c, ns, down) ==
    IF "namespaces" \notin down /\ NamespaceExists(c, ns)
    THEN Ok(c)
    ELSE IF "namespaces" \in down \/ NamespaceExists(c, ns)
         THEN Fail(c, Errorf("failed to create namespace"))
         ELSE Ok([c EXCEPT !.namespaces = @ \cup {NamespaceObject(ns)}])

createDeployment(c, name, ns, labels, id, down) ==
    IF Len(id) < PrefixLen
    THEN Fail(c, Panic)
    ELSE LET obj == [namespace |-> ns,
                     name |-> <<name, SubSeq(id, 1, PrefixLen)>>,
                     labels |-> MergeLabels(labels, BuildDeploymentLabels(id, name))]
         IN IF "deployments" \in down \/ ObjectExists(c.deployments, ns, obj.name)
            THEN Fail(c, Errorf("deployments.apps create failed"))
            ELSE Ok([c EXCEPT !.deployments = @ \cup {obj}])

createService(c, name, ns, labels, id, down) ==
    IF Len(id) < PrefixLen
    THEN Fail(c, Panic)
    ELSE LET obj == [namespace |-> ns,
                     name |-> <<name, "service", SubSeq(id, 1, PrefixLen)>>,
                     labels |-> MergeLabels(labels, BuildDeploymentLabels(id, name))]
         IN IF "services" \in down \/ ObjectExists(c.services, ns, obj.name)
            THEN Fail(c, Errorf("services create failed"))
            ELSE Ok([c EXCEPT !.services = @ \cup {obj}])

CreateContainer(c, req, id, down) ==
    LET namespace == OrDefault(req.namespace)
        afterService(r3) ==
            IF r3.err = Panic THEN r3
            ELSE IF r3.err # NoError THEN Fail(r3.c, Errorf("failed to create service"))
            ELSE Ok(r3.c)
        afterDeployment(r2) ==
            IF r2.err = Panic THEN r2
            ELSE IF r2.err # NoError THEN Fail(r2.c, Errorf("failed to create deployment"))
            ELSE IF ~req.ports THEN Ok(r2.c)
            ELSE afterService(createService(r2.c, req.name, namespace, req.labels, id, down))
        afterNamespace(r1) ==
            IF r1.err # NoError THEN Fail(r1.c, Errorf("failed to ensure namespace"))
            ELSE afterDeployment(createDeployment(r1.c, req.name, namespace, req.labels, id, down))
    IN afterNamespace(ensureNamespace(c, namespace, down))

\* (response, error) of a lookup
NoDeployment == [id |-> <<>>, kind |-> "", name |-> <<>>, namespace |-> "", labels |-> NoLabels]

Found(resp) == [resp |-> resp, err |-> NoError]

NotFound(err) == [resp |-> NoDeployment, err |-> err]

DeploymentResponse(id, kind, o) ==
    [id |-> id, kind |-> kind, name |-> o.name, namespace |-> o.namespace, labels |-> o.labels]

GetContainerAnyID(c, id, down) ==
    LET convert(items) ==
            IF Len(items) = 0 THEN NotFound(NewErrDeploymentNotFound(id))
            ELSE Found(DeploymentResponse(id, DeploymentKindContainer, items[1]))
    IN IF "deployments" \in down THEN NotFound(Errorf("failed to get deployment"))
       ELSE convert(ListObjects(c.deployments, "", BuildManagedResourceSelector))

GetContainer(c, id, down) ==
    LET convert(items) ==
            IF Len(items) = 0 THEN NotFound(NewErrDeploymentNotFound(id))
            ELSE Found(DeploymentResponse(id, DeploymentKindContainer, items[1]))
    IN IF "deployments" \in down THEN NotFound(Errorf("failed to get deployment"))
       ELSE convert(ListObjects(c.deployments, "", BuildDeploymentSelector(id)))

DeleteContainer(c, id, ns, down) ==
    LET namespace == OrDefault(ns)
        selected(o) == o.namespace = namespace /\ Matches(o.labels, BuildDeploymentSelector(id))
        deleteServices(c1) ==
            IF "services" \in down THEN c1
            ELSE [c1 EXCEPT !.services = {o \in @ : ~selected(o)}]
    IN IF "deployments" \in down
       THEN Fail(c, Errorf("failed to delete deployment"))
       ELSE Ok(deleteServices([c EXCEPT !.deployments = {o \in @ : ~selected(o)}]))

UpdateContainerRollsBack(c, req, id, down) ==
    LET recreated(r) == IF r.err # NoError THEN Fail(c, r.err) ELSE r
    IN recreated(CreateContainer(DeleteContainer(c, id, OrDefault(req.namespace), down).c,
                                 req, id, down))

UpdateContainer(c, req, id, down) ==
    CreateContainer(DeleteContainer(c, id, OrDefault(req.namespace), down).c, req, id, down)

\* the loop of ListContainers / ListVMs over the listed items
RECURSIVE Page(_, _, _, _)
Page(items, i, limit, offset) ==
    IF i > Len(items) THEN <<>>
    ELSE IF i - 1 < offset THEN Page(items, i + 1, limit, offset)
    ELSE IF limit <= 0 THEN <<>>
    ELSE <<items[i]>> \o Page(items, i + 1, limit - 1, offset)

ContainerItem(o) == DeploymentResponse(o.labels[LabelAppID], DeploymentKindContainer, o)

MapSeq(Op(_), s) == [i \in 1..Len(s) |-> Op(s[i])]

ListContainersAllNamespaces(c, namespace, limit, offset, down) ==
    IF "deployments" \in down
    THEN [items |-> <<>>, err |-> Errorf("failed to list deployments")]
    ELSE [items |-> MapSeq(ContainerItem,
                           Page(ListObjects(c.deployments, "", BuildManagedResourceSelector),
                                1, limit, offset)),
          err |-> NoError]

ListContainers(c, namespace, limit, offset, down) ==
    IF "deployments" \in down
    THEN [items |-> <<>>, err |-> Errorf("failed to list deployments")]
    ELSE [items |-> MapSeq(ContainerItem,
                           Page(ListObjects(c.deployments, namespace, BuildManagedResourceSelector),
                                1, limit, offset)),
          err |-> NoError]

(***************************************************************************)
(* VMService                                                               *)
(***************************************************************************)
\* a *string field of VMConfig: nil or a value
NilString == [set |-> FALSE, val |-> <<>>]

Ptr(v) == [set |-> TRUE, val |-> v]

\* an SSH public key is the sequence of its space-separated fields
ValidKeyTypes ==
    {"ssh-rsa", "ssh-ed25519", "ecdsa-sha2-nistp256", "ecdsa-sha2-nistp384",
     "ecdsa-sha2-nistp521", "ssh-dss"}

validateSSHPublicKey(publicKey) ==
    IF publicKey = <<>> THEN Errorf("SSH public key cannot be empty")
    ELSE IF Len(publicKey) >= 2 /\ publicKey[1] \in ValidKeyTypes THEN NoError
    ELSE Errorf("invalid SSH public key format")

LowerAlnum ==
    {"a", "b", "c", "d", "e", "f", "g", "h", "i", "j", "k", "l", "m", "n", "o", "p", "q",
     "r", "s", "t", "u", "v", "w", "x", "y", "z", "0", "1", "2", "3", "4", "5", "6", "7",
     "8", "9"}

SecretNameMaxLen == 253

\* ^[a-z0-9]([-a-z0-9]*[a-z0-9])?$ over a name given as its characters
validateSecretName(name) ==
    IF name = <<>> THEN Errorf("secret name cannot be empty")
    ELSE IF ~(/\ name[1] \in LowerAlnum
              /\ name[Len(name)] \in LowerAlnum
              /\ \A i \in 1..Len(name) : name[i] \in LowerAlnum \cup {"-"})
         THEN Errorf("invalid secret name")
    ELSE IF Len(name) > SecretNameMaxLen THEN Errorf("secret name too long")
    ELSE NoError

\* fmt.Sprintf("%s-ssh-key-%s", "vm-" + deploymentID[:min(len, 8)], random)
generateSecretName(id, random) ==
    <<"v", "m", "-">> \o SubSeq(id, 1, Min(Len(id), PrefixLen)) \o <<"-ssh-key-">> \o random

createSSHKeySecret(c, ns, secretName, publicKey, id, down) ==
    LET obj == [namespace |-> ns, name |-> secretName,
                labels |-> BuildDeploymentLabels(id, secretName), key |-> publicKey]
    IN IF "secrets" \in down \/ ObjectExists(c.secrets, ns, secretName)
       THEN Fail(c, Errorf("failed to create SSH key secret"))
       ELSE Ok([c EXCEPT !.secrets = @ \cup {obj}])

\* (cluster, error, secretName, wasCreated)
SecretResult(c, err, name, created) == [c |-> c, err |-> err, name |-> name, created |-> created]

ensureSSHKeySecret(c, ns, vm, id, down) ==
    LET taken == {t \in SecretSuffixes : ObjectExists(c.secrets, ns, generateSecretName(id, t))}
        useRandomName == ~vm.sshKeyName.set
        create(secretName) ==
            LET made(r) ==
                    IF r.err # NoError THEN SecretResult(r.c, r.err, <<>>, FALSE)
                    ELSE SecretResult(r.c, NoError, secretName, useRandomName)
            IN made(createSSHKeySecret(c, ns, secretName, vm.sshPublicKey.val, id, down))
    IN IF ~vm.sshPublicKey.set /\ ~vm.sshKeyName.set
       THEN SecretResult(c, NoError, <<>>, FALSE)
       ELSE IF vm.sshPublicKey.set /\ validateSSHPublicKey(vm.sshPublicKey.val) # NoError
       THEN SecretResult(c, Errorf("invalid SSH public key"), <<>>, FALSE)
       ELSE IF useRandomName
       THEN create(generateSecretName(id, RandomTail(SecretSuffixes, taken)))
       ELSE IF validateSecretName(vm.sshKeyName.val) # NoError
       THEN SecretResult(c, Errorf("invalid secret name"), <<>>, FALSE)
       ELSE IF "secrets" \notin down /\ ObjectExists(c.secrets, ns, vm.sshKeyName.val)
       THEN SecretResult(c, NoError, vm.sshKeyName.val, FALSE)
       ELSE IF "secrets" \in down
       THEN SecretResult(c, Errorf("failed to check for secret"), <<>>, FALSE)
       ELSE IF ~vm.sshPublicKey.set
       THEN SecretResult(c, Errorf("secret not found and no ssh_public_key provided"), <<>>, FALSE)
       ELSE create(vm.sshKeyName.val)

\* uint32(vmSpec.VM.Cpu): the 32-bit two's complement pattern of n, as its
\* high and low 16-bit halves
Uint32(n) == [hi |-> (n \div 65536) % 65536, lo |-> n % 65536]

CreateVM(c, req, id, down) ==
    LET namespace == OrDefault(req.namespace)
        own == BuildDeploymentLabels(id, req.name)
        create(c2, obj) ==
            IF "virtualmachines" \in down \/ ObjectExists(c2.vms, namespace, obj.name)
            THEN Fail(c2, Errorf("failed to create VirtualMachine"))
            ELSE Ok([c2 EXCEPT !.vms = @ \cup {obj}])
        afterSecret(r2) ==
            LET taken == {t \in Suffixes : ObjectExists(r2.c.vms, namespace, <<req.name, t>>)}
            IN IF r2.err # NoError THEN Fail(r2.c, Errorf("failed to ensure SSH key secret"))
               ELSE create(r2.c,
                           [namespace |-> namespace,
                            name |-> <<req.name, RandomTail(Suffixes, taken)>>,
                            labels |-> IF r2.created
                                       THEN own @@ (LabelSSHSecretCreated :> "true")
                                       ELSE own,
                            cores |-> Uint32(req.vm.cpu),
                            memoryGi |-> req.vm.ram,
                            secret |-> r2.name])
        afterNamespace(r1) ==
            IF r1.err # NoError THEN Fail(r1.c, Errorf("failed to ensure namespace"))
            ELSE afterSecret(ensureSSHKeySecret(r1.c, namespace, req.vm, id, down))
    IN afterNamespace(ensureNamespace(c, namespace, down))

GetVMAnyID(c, id, down) ==
    LET convert(items) ==
            IF Len(items) = 0 THEN NotFound(NewErrDeploymentNotFound(id))
            ELSE Found(DeploymentResponse(id, DeploymentKindVM, items[1]))
    IN IF "virtualmachines" \in down THEN NotFound(Errorf("failed to get virtual machine"))
       ELSE convert(ListObjects(c.vms, "", BuildManagedResourceSelector))

GetVM(c, id, down) ==
    LET convert(items) ==
            IF Len(items) = 0 THEN NotFound(NewErrDeploymentNotFound(id))
            ELSE Found(DeploymentResponse(id, DeploymentKindVM, items[1]))
    IN IF "virtualmachines" \in down THEN NotFound(Errorf("failed to get virtual machine"))
       ELSE convert(ListObjects(c.vms, "", BuildDeploymentSelector(id)))

DeleteVMKeepsSecrets(c, id, ns, down) ==
    IF "virtualmachines" \in down
    THEN Fail(c, Errorf("failed to delete VirtualMachine"))
    ELSE Ok([c EXCEPT !.vms = {o \in @ : ~(/\ o.namespace = OrDefault(ns)
                                            /\ Matches(o.labels, BuildDeploymentSelector(id)))}])

DeleteVM(c, id, ns, down) ==
    LET namespace == OrDefault(ns)
        selected(o) == o.namespace = namespace /\ Matches(o.labels, BuildDeploymentSelector(id))
        marked(items) ==
            /\ "virtualmachines" \notin down
            /\ Len(items) > 0
            /\ LabelSSHSecretCreated \in DOMAIN items[1].labels
            /\ items[1].labels[LabelSSHSecretCreated] = "true"
        deleteVMs(c1) ==
            IF "virtualmachines" \in down
            THEN Fail(c1, Errorf("failed to delete VirtualMachine"))
            ELSE Ok([c1 EXCEPT !.vms = {o \in @ : ~selected(o)}])
    IN IF marked(ListObjects(c.vms, namespace, BuildDeploymentSelector(id))) /\ "secrets" \notin down
       THEN deleteVMs([c EXCEPT !.secrets = {o \in @ : ~selected(o)}])
       ELSE deleteVMs(c)

UpdateVM(c, req, id, down) ==
    CreateVM(DeleteVM(c, id, OrDefault(req.namespace), down).c, req, id, down)

VMItem(o) == DeploymentResponse(o.labels[LabelAppID], DeploymentKindVM, o)

ListVMs(c, namespace, limit, offset, down) ==
    IF "virtualmachines" \in down
    THEN [items |-> <<>>, err |-> Errorf("failed to list virtual machines")]
    ELSE [items |-> MapSeq(VMItem,
                           Page(ListObjects(c.vms, namespace, BuildManagedResourceSelector),
                                1, limit, offset)),
          err |-> NoError]

(***************************************************************************)
(* DeploymentService                                                       *)
(***************************************************************************)
GetDeploymentByID(c, id, down) ==
    LET append(r) == IF r.err = NoError THEN <<r.resp>> ELSE <<>>
        namespaces(found) == [i \in 1..Len(found) |-> found[i].namespace]
        result(foundDeployments) ==
            IF Len(foundDeployments) > 1
            THEN NotFound(NewErrMultipleDeploymentsFound(id, Len(foundDeployments),
                                                         namespaces(foundDeployments)))
            ELSE IF Len(foundDeployments) = 1 THEN Found(foundDeployments[1])
            ELSE NotFound(NewErrDeploymentNotFound(id))
    IN result(append(GetContainer(c, id, down)) \o append(GetVM(c, id, down)))

CreateDeploymentUnrouted(c, req, id, down) == CreateContainer(c, req, id, down)

CreateDeployment(c, req, id, down) ==
    LET checked(existing) ==
            IF existing.err = NoError
            THEN Fail(c, NewErrDeploymentAlreadyExists(id, existing.resp.namespace,
                                                       existing.resp.kind))
            ELSE IF IsMultipleFoundError(existing.err) THEN Fail(c, existing.err)
            ELSE IF ~IsNotFoundError(existing.err)
            THEN Fail(c, Errorf("failed to validate deployment ID uniqueness"))
            ELSE IF req.kind = DeploymentKindContainer THEN CreateContainer(c, req, id, down)
            ELSE IF req.kind = DeploymentKindVM THEN CreateVM(c, req, id, down)
            ELSE Fail(c, Errorf("unsupported deployment kind"))
    IN checked(GetDeploymentByID(c, id, down))

UpdateDeployment(c, req, id, down) ==
    IF req.kind = DeploymentKindContainer THEN UpdateContainer(c, req, id, down)
    ELSE IF req.kind = DeploymentKindVM THEN UpdateVM(c, req, id, down)
    ELSE Fail(c, Errorf("unsupported deployment kind"))

DeleteDeployment(c, id, down) ==
    LET found(deployment) ==
            IF deployment.err # NoError THEN Fail(c, deployment.err)
            ELSE IF deployment.resp.kind = DeploymentKindContainer
            THEN DeleteContainer(c, id, deployment.resp.namespace, down)
            ELSE IF deployment.resp.kind = DeploymentKindVM
            THEN DeleteVM(c, id, deployment.resp.namespace, down)
            ELSE Fail(c, Errorf("unsupported deployment kind"))
    IN found(GetDeploymentByID(c, id, down))

NoList == [deployments |-> <<>>, limit |-> 0, offset |-> 0, total |-> 0, hasMore |-> FALSE]

ListDeployments(c, req, down) ==
    LET wantContainers == req.kind = "" \/ req.kind = DeploymentKindContainer
        wantVMs == req.kind = "" \/ req.kind = DeploymentKindVM
        paginate(allDeployments) ==
            [list |-> [deployments |->
                           IF req.offset >= Len(allDeployments) THEN <<>>
                           ELSE SubSeq(allDeployments, req.offset + 1,
                                       Min(req.offset + req.limit, Len(allDeployments))),
                       limit |-> req.limit,
                       offset |-> req.offset,
                       total |-> Len(allDeployments),
                       hasMore |-> req.offset + req.limit < Len(allDeployments)],
             err |-> NoError]
        withVMs(allDeployments, vms) ==
            IF vms.err # NoError THEN [list |-> NoList, err |-> Errorf("failed to list VMs")]
            ELSE paginate(allDeployments \o vms.items)
        listVMs(allDeployments) ==
            IF wantVMs THEN withVMs(allDeployments, ListVMs(c, req.namespace, req.limit, 0, down))
            ELSE paginate(allDeployments)
        withContainers(containers) ==
            IF containers.err # NoError
            THEN [list |-> NoList, err |-> Errorf("failed to list containers")]
            ELSE listVMs(containers.items)
    IN IF wantContainers
       THEN withContainers(ListContainers(c, req.namespace, req.limit, 0, down))
       ELSE listVMs(<<>>)

(***************************************************************************)
(* HTTP handlers of the deployment service                                 *)
(***************************************************************************)
ShouldBindJSONKindOnly(req) == req.kind \in {DeploymentKindContainer, DeploymentKindVM}

\* c.ShouldBindJSON(&req): kind required, oneof=container vm; metadata.name
\* required; spec required
ShouldBindJSON(req) ==
    /\ req.kind \in {DeploymentKindContainer, DeploymentKindVM}
    /\ req.name # ""
    /\ req.hasSpec

parseAndValidateSpec(req) ==
    IF req.kind \in {DeploymentKindContainer, DeploymentKindVM}
    THEN NoError
    ELSE Errorf("unsupported deployment kind")

\* c.ShouldBindQuery(&req): limit min=1,max=100; offset min=0
ShouldBindQuery(req) ==
    /\ req.limit >= 1
    /\ req.limit <= LimitCeiling
    /\ req.offset >= 0

Response(op, id, status, code) ==
    [op |-> op, id |-> id, status |-> status, code |-> code, kind |-> "", list |-> NoList]

WithDefaultNamespace(req) == [req EXCEPT !.namespace = OrDefault(@)]

HandleCreateDeployment(c, req, id, down) ==
    LET respond(r, kind) ==
            IF r.err = Panic
            THEN [c |-> r.c, resp |-> Response("POST", id, 500, "")]
            ELSE IF r.err # NoError /\ IsConflictError(r.err)
            THEN [c |-> r.c, resp |-> Response("POST", id, 409, "DEPLOYMENT_ID_EXISTS")]
            ELSE IF r.err # NoError
            THEN [c |-> r.c, resp |-> Response("POST", id, 500, "DEPLOYMENT_FAILED")]
            ELSE [c |-> r.c, resp |-> [Response("POST", id, 201, "") EXCEPT !.kind = kind]]
    IN IF ~ShouldBindJSON(req)
       THEN [c |-> c, resp |-> Response("POST", id, 400, "INVALID_REQUEST")]
       ELSE IF parseAndValidateSpec(WithDefaultNamespace(req)) # NoError
       THEN [c |-> c, resp |-> Response("POST", id, 400, "INVALID_SPEC")]
       ELSE respond(CreateDeployment(c, WithDefaultNamespace(req), id, down), req.kind)

HandleGetDeployment(c, id, down) ==
    LET respond(r) ==
            IF r.err = NoError
            THEN [Response("GET", id, 200, "") EXCEPT !.id = r.resp.id, !.kind = r.resp.kind]
            ELSE IF IsMultipleFoundError(r.err)
            THEN Response("GET", id, 409, "DEPLOYMENT_ID_CONFLICT")
            ELSE IF IsNotFoundError(r.err) THEN Response("GET", id, 404, "DEPLOYMENT_NOT_FOUND")
            ELSE Response("GET", id, 500, "INTERNAL_ERROR")
    IN respond(GetDeploymentByID(c, id, down))

HandleUpdateDeployment(c, req, id, down) ==
    LET respond(r, kind) ==
            IF r.err = Panic
            THEN [c |-> r.c, resp |-> Response("PUT", id, 500, "")]
            ELSE IF r.err # NoError
            THEN [c |-> r.c, resp |-> Response("PUT", id, 500, "UPDATE_FAILED")]
            ELSE [c |-> r.c, resp |-> [Response("PUT", id, 200, "") EXCEPT !.kind = kind]]
    IN IF ~ShouldBindJSON(req)
       THEN [c |-> c, resp |-> Response("PUT", id, 400, "INVALID_REQUEST")]
       ELSE IF parseAndValidateSpec(WithDefaultNamespace(req)) # NoError
       THEN [c |-> c, resp |-> Response("PUT", id, 400, "INVALID_SPEC")]
       ELSE respond(UpdateDeployment(c, WithDefaultNamespace(req), id, down), req.kind)

HandleDeleteDeployment(c, id, down) ==
    LET respond(r) ==
            IF r.err = NoError
            THEN [c |-> r.c, resp |-> Response("DELETE", id, 204, "")]
            ELSE IF IsMultipleFoundError(r.err)
            THEN [c |-> r.c, resp |-> Response("DELETE", id, 409, "DEPLOYMENT_ID_CONFLICT")]
            ELSE IF IsNotFoundError(r.err)
            THEN [c |-> r.c, resp |-> Response("DELETE", id, 404, "DEPLOYMENT_NOT_FOUND")]
            ELSE [c |-> r.c, resp |-> Response("DELETE", id, 500, "DELETE_FAILED")]
    IN respond(DeleteDeployment(c, id, down))

HandleListDeployments(c, req, down) ==
    LET respond(r) ==
            IF r.err # NoError THEN Response("LIST", <<>>, 500, "LIST_FAILED")
            ELSE [Response("LIST", <<>>, 200, "") EXCEPT !.list = r.list]
    IN IF ~ShouldBindQuery(req) THEN Response("LIST", <<>>, 400, "INVALID_QUERY")
       ELSE respond(ListDeployments(c, req, down))

(***************************************************************************)
(* State                                                                   *)
(***************************************************************************)
VARIABLES
    namespaces,    \* Namespace objects of the cluster
    deployments,   \* apps/v1 Deployments
    services,      \* core/v1 Services
    vms,           \* kubevirt.io/v1 VirtualMachines
    secrets,       \* core/v1 Secrets
    resp,          \* the response to the last request
    proc,          \* the server process: main's position and its two listeners
    calls          \* the handlers in flight: each one's request and position

vars == <<namespaces, deployments, services, vms, secrets, resp, proc, calls>>

Cluster ==
    [namespaces |-> namespaces, deployments |-> deployments, services |-> services,
     vms |-> vms, secrets |-> secrets]

(***************************************************************************)
(* The server process (cmd/server/main.go) and its configuration           *)
(***************************************************************************)
DefaultPort == 8080

NamespacePort == 8081

MaxPort == 65535

DefaultHost == "0.0.0.0"

ValidateNoCeiling(cfg) ==
    IF cfg.port <= 0 THEN Errorf("invalid server port")
    ELSE IF cfg.host = "" THEN Errorf("server host cannot be empty")
    ELSE NoError

\* Config.Validate
Validate(cfg) ==
    IF cfg.port <= 0 \/ cfg.port > MaxPort THEN Errorf("invalid server port")
    ELSE IF cfg.host = "" THEN Errorf("server host cannot be empty")
    ELSE NoError

\* the process once both listeners serve; the channels of the shutdown are
\* still empty
Running(cfg) ==
    [pc |-> "waiting", cfg |-> cfg, client |-> TRUE, exitCode |-> 0,
     deploymentServer |-> "serving", namespaceServer |-> "serving",
     deploymentErr |-> "empty", namespaceErr |-> "empty", shutdownErrors |-> 0]

DeploymentServing == proc.pc # "exited" /\ proc.deploymentServer = "serving"

NamespaceServing == proc.pc # "exited" /\ proc.namespaceServer = "serving"

\* two handlers can run at a time; none is running
Slots == {1, 2}

Idle == [pc |-> "idle"]

NoCalls == [i \in Slots |-> Idle]

\* a Secret made by an administrator before the service started
PreexistingSecret ==
    [namespace |-> DefaultNamespace, name |-> <<"k", "1">>, labels |-> NoLabels,
     key |-> <<"ssh-ed25519", "AAAA">>]

Init ==
    /\ namespaces = {NamespaceObject(DefaultNamespace)}
    /\ deployments = {}
    /\ services = {}
    /\ vms = {}
    /\ secrets = {PreexistingSecret}
    /\ resp = Response("none", <<>>, 0, "")
    /\ proc = Running([port |-> DefaultPort, host |-> DefaultHost])
    /\ calls = NoCalls

(***************************************************************************)
(* Request inputs                                                          *)
(***************************************************************************)
NoVM == [ram |-> 0, cpu |-> 0, sshKeyName |-> NilString, sshPublicKey |-> NilString]

VMSizes == {2}

VMConfigs ==
    [ram : VMSizes, cpu : VMSizes,
     sshKeyName : {NilString},
     sshPublicKey : {Ptr(<<"ssh-rsa", "AAAA">>)}]

UserLabels == {NoLabels, (LabelAppID :> IDB)}

\* metadata.namespace of a request body: absent, or a namespace other than
\* the default one
RequestNamespaces == {"", "prod"}

\* the namespace filter of a list request: absent, or any namespace
FilterNamespaces == {""} \cup NamespaceNames

ContainerRequests ==
    [kind : {DeploymentKindContainer}, name : Names, namespace : RequestNamespaces,
     labels : UserLabels, ports : BOOLEAN, vm : {NoVM}, hasSpec : {TRUE}]

VMRequests ==
    [kind : {DeploymentKindVM}, name : Names, namespace : RequestNamespaces,
     labels : {NoLabels}, ports : {FALSE}, vm : VMConfigs, hasSpec : {TRUE}]

RejectedRequests ==
    [kind : {"job"}, name : Names, namespace : {""},
     labels : {NoLabels}, ports : {FALSE}, vm : {NoVM}, hasSpec : {TRUE}]
    \cup [kind : {DeploymentKindContainer}, name : Names, namespace : {""},
          labels : {NoLabels}, ports : {FALSE}, vm : {NoVM}, hasSpec : {FALSE}]

Requests == ContainerRequests \cup VMRequests \cup RejectedRequests

AcceptedListRequests ==
    [namespace : FilterNamespaces, kind : {"", DeploymentKindContainer, DeploymentKindVM},
     limit : 1..MaxLimit, offset : Offsets]

RejectedListRequests ==
    {[namespace |-> "", kind |-> "", limit |-> 0, offset |-> 0],
     [namespace |-> "", kind |-> "", limit |-> LimitCeiling + 1, offset |-> 0],
     [namespace |-> "", kind |-> "", limit |-> 1, offset |-> -1]}

\* the list requests the clients of the model send; the properties of
\* ListDeployments are stated over all of AcceptedListRequests
SentListRequests ==
    {req \in AcceptedListRequests :
        /\ req.namespace \in RequestNamespaces
        /\ req.kind \in {"", DeploymentKindContainer}
        /\ req.limit \in {1, MaxLimit}}

ListRequests == SentListRequests \cup RejectedListRequests

\* the sets of API resources failing during one request
Healthy == {}

FaultSets == {{r} : r \in Resources} \cup {{"deployments", "virtualmachines"}}

(***************************************************************************)
(* Actions: one per request                                                *)
(***************************************************************************)
\* the request is served: the cluster and the response it leaves behind
Served(h) ==
    /\ DeploymentServing
    /\ Cardinality(h.c.deployments) + Cardinality(h.c.vms) <= MaxWorkloads
    /\ namespaces' = h.c.namespaces
    /\ deployments' = h.c.deployments
    /\ services' = h.c.services
    /\ vms' = h.c.vms
    /\ secrets' = h.c.secrets
    /\ resp' = h.resp
    /\ UNCHANGED <<proc, calls>>

\* POST /api/v1/deployments; id is uuid.New()
PostDeployment(req, id, down) ==
    /\ id \in IDs
    /\ Served(HandleCreateDeployment(Cluster, req, id, down))

\* GET /api/v1/deployments/{id}
GetDeployment(id, down) ==
    /\ id # <<>>
    /\ DeploymentServing
    /\ resp' = HandleGetDeployment(Cluster, id, down)
    /\ UNCHANGED <<namespaces, deployments, services, vms, secrets, proc, calls>>

\* PUT /api/v1/deployments/{id}
PutDeployment(req, id, down) ==
    /\ id # <<>>
    /\ Served(HandleUpdateDeployment(Cluster, req, id, down))

\* DELETE /api/v1/deployments/{id}
DeleteDeploymentRequest(id, down) ==
    /\ id # <<>>
    /\ Served(HandleDeleteDeployment(Cluster, id, down))

\* GET /api/v1/deployments?namespace=&kind=&limit=&offset=
ListDeploymentsRequest(req, down) ==
    /\ DeploymentServing
    /\ resp' = HandleListDeployments(Cluster, req, down)
    /\ UNCHANGED <<namespaces, deployments, services, vms, secrets, proc, calls>>

Request(down) ==
    \/ \E req \in Requests, id \in IDs : PostDeployment(req, id, down)
    \/ \E id \in IDs : GetDeployment(id, down)
    \/ \E req \in Requests, id \in IDs : PutDeployment(req, id, down)
    \/ \E id \in IDs : DeleteDeploymentRequest(id, down)
    \/ \E req \in ListRequests : ListDeploymentsRequest(req, down)

\* every request is served by healthy API servers
Next == Request(Healthy)

Spec == Init /\ [][Next]_vars

\* a lookup may also meet failing list calls
FaultyGet == \E id \in IDs, down \in FaultSets : GetDeployment(id, down)

NextFault == Next \/ FaultyGet

SpecFault == Init /\ [][NextFault]_vars

(***************************************************************************)
(* What the cluster holds, for stating the properties                      *)
(***************************************************************************)
\* a managed workload carrying app-id = id
Carries(o, id) ==
    /\ LabelManagedBy \in DOMAIN o.labels
    /\ o.labels[LabelManagedBy] = ManagedByValue
    /\ LabelAppID \in DOMAIN o.labels
    /\ o.labels[LabelAppID] = id

\* (kind, namespace) of every managed workload carrying id, both kinds, all namespaces
WorkloadsOf(c, id) ==
    {<<DeploymentKindContainer, o.namespace, o.name>> : o \in {d \in c.deployments : Carries(d, id)}}
    \cup {<<DeploymentKindVM, o.namespace, o.name>> : o \in {v \in c.vms : Carries(v, id)}}

WorkloadCount(id) == Cardinality(WorkloadsOf(Cluster, id))

GetResponse(id) == HandleGetDeployment(Cluster, id, Healthy)

(***************************************************************************)
(* C1 -- Deployment ids are globally unique: in every state reachable      *)
(* through POST, PUT and DELETE requests at most one managed workload      *)
(* (Deployment or VirtualMachine, over all namespaces and both kinds)      *)
(* carries a given app-id.                                                 *)
(* Violated: PUT deletes in the namespace and kind of the request body, not *)
(* where the id lives, and then creates without a uniqueness check.        *)
(***************************************************************************)
C1_UniqueDeploymentIDs == \A id \in IDs : WorkloadCount(id) <= 1

(***************************************************************************)
(* C2 -- PUT auto-detects the namespace: a successful PUT on an id carried *)
(* by one workload replaces that workload wherever it lives, so afterwards *)
(* the id is still carried by exactly one workload (the previous one is    *)
(* gone from every namespace).                                             *)
(***************************************************************************)
C2_PutReplacesWhereItLives ==
    [][(resp'.op = "PUT" /\ resp'.status = 200 /\ WorkloadCount(resp'.id) = 1)
           => Cardinality(WorkloadsOf(Cluster', resp'.id)) = 1]_vars

(***************************************************************************)
(* C3 -- CreateDeployment(req, id) called while exactly one workload       *)
(* carries id returns ErrDeploymentAlreadyExists naming that workload's    *)
(* namespace and kind, leaves the cluster as it was (no Namespace,         *)
(* Deployment, Service, Secret or VirtualMachine is created), and the POST *)
(* handler answers 409 DEPLOYMENT_ID_EXISTS.  Stated for every request the *)
(* handler binds and every id, in every reachable state.                   *)
(***************************************************************************)
BindableRequests == {req \in Requests : ShouldBindJSON(req)}

C3_CreateExistingIDConflicts ==
    \A id \in IDs :
        WorkloadCount(id) = 1 =>
            \A req \in BindableRequests :
                LET w == CHOOSE x \in WorkloadsOf(Cluster, id) : TRUE
                    r == CreateDeployment(Cluster, WithDefaultNamespace(req), id, Healthy)
                    h == HandleCreateDeployment(Cluster, req, id, Healthy)
                IN /\ r.err = NewErrDeploymentAlreadyExists(id, w[2], w[1])
                   /\ r.c = Cluster
                   /\ h.c = Cluster
                   /\ h.resp.status = 409
                   /\ h.resp.code = "DEPLOYMENT_ID_EXISTS"

\* a POST was answered 409 for an id that one workload carries
C3_Witness ==
    /\ resp.op = "POST"
    /\ resp.status = 409
    /\ resp.code = "DEPLOYMENT_ID_EXISTS"
    /\ WorkloadCount(resp.id) = 1

(***************************************************************************)
(* C4 -- After DELETE /deployments/{id} answers 204, GET /deployments/{id} *)
(* answers 404 DEPLOYMENT_NOT_FOUND (stated on the state the DELETE        *)
(* leaves).                                                                *)
(* Violated: two Deployments with one id in two namespaces (left by a PUT   *)
(* that names another namespace) are not seen as a conflict; DELETE        *)
(* removes the first only.                                                 *)
(***************************************************************************)
C4_DeletedThenNotFound ==
    (resp.op = "DELETE" /\ resp.status = 204)
        => (GetResponse(resp.id).status = 404 /\ GetResponse(resp.id).code = "DEPLOYMENT_NOT_FOUND")

(***************************************************************************)
(* C5 -- Create/get round trip: a POST answered 201 with id i and kind k   *)
(* leaves a state in which GET i answers 200 with id i and kind k, and     *)
(* that answer is kept by every request other than a PUT or DELETE of i.   *)
(***************************************************************************)
Answers(r, id, kind) == r.status = 200 /\ r.id = id /\ r.kind = kind

GetAnswers(c, id, kind) == Answers(HandleGetDeployment(c, id, Healthy), id, kind)

\* an answer 200 of GET before the step is the answer of GET after it
Kept(before, after) == before.status = 200 => after = before

C5_CreateGetRoundTrip ==
    [][/\ (resp'.op = "POST" /\ resp'.status = 201) => GetAnswers(Cluster', resp'.id, resp'.kind)
       /\ \A id \in IDs :
              ~(resp'.op \in {"PUT", "DELETE"} /\ resp'.id = id)
                  => Kept(HandleGetDeployment(Cluster, id, Healthy),
                          HandleGetDeployment(Cluster', id, Healthy))]_vars

\* a VM was created by POST in a namespace other than the default one, next
\* to a workload with another id, and GET finds it
C5_Witness ==
    /\ resp.op = "POST"
    /\ resp.status = 201
    /\ resp.kind = DeploymentKindVM
    /\ \E v \in vms : Carries(v, resp.id) /\ v.namespace = "prod"
    /\ \E id \in IDs : id # resp.id /\ WorkloadCount(id) = 1
    /\ GetAnswers(Cluster, resp.id, DeploymentKindVM)

(***************************************************************************)
(* C6 -- When two or more workloads carry one id (also two of the same     *)
(* kind in different namespaces), GET and DELETE for that id answer 409    *)
(* DEPLOYMENT_ID_CONFLICT and DELETE removes nothing.                      *)
(* Violated: GetContainer and GetVM return the first item of their list,   *)
(* so GetDeploymentByID counts kinds, not workloads.                       *)
(***************************************************************************)
IsIDConflict(r) == r.status = 409 /\ r.code = "DEPLOYMENT_ID_CONFLICT"

C6_DuplicateIDConflicts ==
    \A id \in IDs :
        WorkloadCount(id) >= 2 =>
            /\ IsIDConflict(GetResponse(id))
            /\ IsIDConflict(HandleDeleteDeployment(Cluster, id, Healthy).resp)
            /\ HandleDeleteDeployment(Cluster, id, Healthy).c = Cluster

(***************************************************************************)
(* C7 -- GET /deployments/{id} answers 404 only if no workload carries the *)
(* id; a failing list call during the lookup gives 500 INTERNAL_ERROR.     *)
(* Violated: GetDeploymentByID drops the errors of GetContainer and GetVM,  *)
(* so a failed list reads as "not found".                                  *)
(***************************************************************************)
C7_NotFoundOnlyIfAbsent ==
    (resp.op = "GET" /\ resp.status = 404) => WorkloadCount(resp.id) = 0

(***************************************************************************)
(* C8 -- ListDeployments: total is the number of all workloads matching    *)
(* the kind and namespace filters, and the page is positions               *)
(* offset .. min(offset+limit, total)-1 of the matching containers         *)
(* followed by the matching VMs.                                           *)
(* Violated: each kind is fetched with (limit, 0) and so cut to limit      *)
(* items before total is computed and the slice is taken.                  *)
(***************************************************************************)
\* every managed workload of the filter, containers first, then VMs
AllMatching(c, req) ==
    (IF req.kind = "" \/ req.kind = DeploymentKindContainer
        THEN MapSeq(ContainerItem, ListObjects(c.deployments, req.namespace, BuildManagedResourceSelector))
        ELSE <<>>)
    \o (IF req.kind = "" \/ req.kind = DeploymentKindVM
           THEN MapSeq(VMItem, ListObjects(c.vms, req.namespace, BuildManagedResourceSelector))
           ELSE <<>>)

ExpectedPage(all, req) ==
    [deployments |-> SubSeq(all, req.offset + 1, Min(req.offset + req.limit, Len(all))),
     limit |-> req.limit, offset |-> req.offset, total |-> Len(all),
     hasMore |-> req.offset + req.limit < Len(all)]

C8_ListTotalAndPage ==
    \A req \in AcceptedListRequests :
        LET want == ExpectedPage(AllMatching(Cluster, req), req)
            got == ListDeployments(Cluster, req, Healthy).list
        IN got.total = want.total /\ got.deployments = want.deployments

(***************************************************************************)
(* C9 -- Paging with offset 0, limit, 2*limit, ... until hasMore is false  *)
(* returns every matching workload exactly once (no change in between).    *)
(* Violated for the reason of C8: the truncated total ends the walk early. *)
(***************************************************************************)
RECURSIVE Pages(_, _, _)
Pages(c, req, offset) ==
    LET r == ListDeployments(c, [req EXCEPT !.offset = offset], Healthy).list
    IN r.deployments \o (IF r.hasMore THEN Pages(c, req, offset + req.limit) ELSE <<>>)

Elements(seq) == {seq[i] : i \in 1..Len(seq)}

C9_PagingIsComplete ==
    \A req \in {r \in AcceptedListRequests : r.offset = 0} :
        /\ Elements(Pages(Cluster, req, 0)) = Elements(AllMatching(Cluster, req))
        /\ Len(Pages(Cluster, req, 0)) = Len(AllMatching(Cluster, req))

(***************************************************************************)
(* C10 -- ListDeployments with kind=K and namespace=N returns only         *)
(* workloads of kind K in namespace N; with kind omitted both kinds, with  *)
(* namespace omitted all namespaces are searched: a first page at least as *)
(* long as the number of workloads holds exactly the workloads that match  *)
(* the given filters.                                                      *)
(***************************************************************************)
PassesFilter(item, req) ==
    /\ req.kind # "" => item.kind = req.kind
    /\ req.namespace # "" => item.namespace = req.namespace

C10_ListFilters ==
    \A req \in AcceptedListRequests :
        LET got == ListDeployments(Cluster, req, Healthy).list.deployments
        IN /\ \A i \in 1..Len(got) : PassesFilter(got[i], req)
           /\ (req.offset = 0 /\ req.limit >= Cardinality(deployments) + Cardinality(vms))
                  => Elements(got) = Elements(AllMatching(Cluster, req))

\* a list request with both filters was answered with a workload, while the
\* cluster also holds a workload of the other kind or another namespace
C10_Witness ==
    /\ resp.op = "LIST"
    /\ resp.status = 200
    /\ Len(resp.list.deployments) > 0
    /\ \E req \in AcceptedListRequests :
           /\ req.kind # "" /\ req.namespace # ""
           /\ resp.list = ListDeployments(Cluster, req, Healthy).list
           /\ Len(AllMatching(Cluster, [req EXCEPT !.kind = "", !.namespace = ""]))
                  > Len(resp.list.deployments)

(***************************************************************************)
(* C11 -- Requests are routed by kind: a successful POST or PUT with kind  *)
(* container leaves a Deployment carrying the id in the request's          *)
(* namespace, a Service carrying it only if ports are given, and creates   *)
(* no VirtualMachine (and no Secret); with kind vm it leaves a             *)
(* VirtualMachine carrying the id and creates no Deployment or Service; a  *)
(* request of any other kind is answered 400 and changes nothing.          *)
(* Stated for every request and id in every reachable state.               *)
(***************************************************************************)
CarriedIn(objects, id, ns) == \E o \in objects : Carries(o, id) /\ o.namespace = ns

RoutedByKind(c, h, req, id) ==
    /\ (h.resp.status \in {200, 201} /\ req.kind = DeploymentKindContainer) =>
           /\ CarriedIn(h.c.deployments, id, OrDefault(req.namespace))
           /\ req.ports => CarriedIn(h.c.services, id, OrDefault(req.namespace))
           /\ ~req.ports => h.c.services \subseteq c.services
           /\ h.c.vms = c.vms
           /\ h.c.secrets = c.secrets
    /\ (h.resp.status \in {200, 201} /\ req.kind = DeploymentKindVM) =>
           /\ CarriedIn(h.c.vms, id, OrDefault(req.namespace))
           /\ h.c.deployments = c.deployments
           /\ h.c.services = c.services
    /\ req.kind \notin {DeploymentKindContainer, DeploymentKindVM} =>
           /\ h.resp.status = 400
           /\ h.c = c

C11_RoutedByKind ==
    \A req \in Requests, id \in IDs :
        /\ RoutedByKind(Cluster, HandleCreateDeployment(Cluster, req, id, Healthy), req, id)
        /\ RoutedByKind(Cluster, HandleUpdateDeployment(Cluster, req, id, Healthy), req, id)

\* a container with a Service and a VM, each made by a successful request
C11_Witness ==
    /\ resp.op \in {"POST", "PUT"}
    /\ resp.status \in {200, 201}
    /\ \E d \in deployments, s \in services :
           Carries(d, resp.id) /\ Carries(s, resp.id) /\ s.namespace = d.namespace
    /\ \E v \in vms : ~Carries(v, resp.id)

(***************************************************************************)
(* VM sizes: requests of kind vm with ram and cpu at and beyond the        *)
(* documented limits                                                       *)
(***************************************************************************)
SizeFloor == 1

SizeCeiling == 32

RamInputs == {0, SizeFloor, SizeCeiling, SizeCeiling + 1}

CpuInputs == {-1, SizeFloor, SizeCeiling, SizeCeiling + 1}

SizedVMRequests ==
    [kind : {DeploymentKindVM}, name : Names, namespace : {""},
     labels : {NoLabels}, ports : {FALSE},
     vm : [ram : RamInputs, cpu : CpuInputs, sshKeyName : {NilString}, sshPublicKey : {NilString}],
     hasSpec : {TRUE}]

PostSizedVM == \E req \in SizedVMRequests, id \in IDs : PostDeployment(req, id, Healthy)

PutSizedVM == \E req \in SizedVMRequests, id \in IDs : PutDeployment(req, id, Healthy)

NextVMSizes ==
    \/ PostSizedVM
    \/ PutSizedVM
    \/ \E id \in IDs : GetDeployment(id, Healthy)
    \/ \E id \in IDs : DeleteDeploymentRequest(id, Healthy)

SpecVMSizes == Init /\ [][NextVMSizes]_vars

(***************************************************************************)
(* C12 -- VM ram and cpu are limited to 1..32: every VirtualMachine the    *)
(* service has created has a memory size in GiB and a core count between   *)
(* 1 and 32 (a request outside the range being answered 400), and the      *)
(* uint32 core count is the requested cpu, not a wrapped value.            *)
(* Violated: the min/max binding tags of VMConfig are never evaluated; the *)
(* spec is bound as interface{} and decoded by json.Unmarshal.             *)
(***************************************************************************)
InRange(n) == SizeFloor <= n /\ n <= SizeCeiling

C12_VMSizesInRange ==
    \A v \in vms : InRange(v.memoryGi) /\ v.cores.hi = 0 /\ InRange(v.cores.lo)

(***************************************************************************)
(* C13 -- Every resource the service has created (Deployment, Service,     *)
(* VirtualMachine, Secret, Namespace) is labelled                          *)
(* managed-by=k8s-service-provider and app-id=<a deployment id>, whatever  *)
(* labels the user supplied.  The Namespace and the Secret present before  *)
(* the service started are not the service's.                              *)
(* Violated: ensureNamespace creates the Namespace with a name only.       *)
(***************************************************************************)
Tagged(o) == \E id \in IDs : Carries(o, id)

C13_CreatedResourcesTagged ==
    /\ \A o \in deployments \cup services \cup vms : Tagged(o)
    /\ \A o \in secrets \ {PreexistingSecret} : Tagged(o)
    /\ \A o \in namespaces \ {NamespaceObject(DefaultNamespace)} : Tagged(o)

(***************************************************************************)
(* C14 -- A POST whose body cannot be bound to a DeploymentRequest (kind   *)
(* missing or not container/vm, metadata.name missing, spec missing; a     *)
(* malformed body binds nothing) is answered 400 INVALID_REQUEST and       *)
(* leaves the cluster as it was, whatever the state of the cluster and of  *)
(* the API server.                                                         *)
(***************************************************************************)
RequestShapes ==
    [kind : {"", "job", DeploymentKindContainer, DeploymentKindVM}, name : {""} \cup Names,
     namespace : {""}, labels : {NoLabels}, ports : {FALSE}, vm : {NoVM},
     hasSpec : BOOLEAN]

UnbindableRequests ==
    {req \in RequestShapes :
        \/ req.kind \notin {DeploymentKindContainer, DeploymentKindVM}
        \/ req.name = ""
        \/ ~req.hasSpec}

C14_UnbindablePostRejected ==
    \A req \in UnbindableRequests, id \in IDs, down \in {Healthy} \cup FaultSets :
        LET h == HandleCreateDeployment(Cluster, req, id, down)
        IN /\ h.resp.status = 400
           /\ h.resp.code = "INVALID_REQUEST"
           /\ h.c = Cluster

\* an unbindable POST was answered while the cluster holds workloads
C14_Witness ==
    /\ resp.op = "POST"
    /\ resp.status = 400
    /\ resp.code = "INVALID_REQUEST"
    /\ deployments # {}
    /\ vms # {}

(***************************************************************************)
(* Namespace service: POST /api/v1/namespaces                              *)
(***************************************************************************)
\* labels an administrator may have put on a namespace
NamespaceLabelSets ==
    {NoLabels, ("env" :> "prod"), ("env" :> "dev"), ("team" :> "core"),
     ("env" :> "prod") @@ ("team" :> "core"), ("env" :> "dev") @@ ("team" :> "core")}

\* a request body: the first JSON value in it (well formed or not, with or
\* without a non-null "labels" member) and whether more bytes follow it
Bodies ==
    [wellFormed : BOOLEAN, hasLabels : BOOLEAN,
     labels : {NoLabels, ("env" :> "prod"), ("team" :> "core"),
               ("env" :> "prod") @@ ("team" :> "core"), ("env" :> "qa")},
     trailing : BOOLEAN]

\* json.NewDecoder(r.Body).Decode(&req): decodes the first JSON value of the
\* body and does not look at what follows it
Decode(body) ==
    IF ~body.wellFormed
    THEN [labels |-> NoLabels, err |-> Errorf("invalid character")]
    ELSE [labels |-> IF body.hasLabels THEN body.labels ELSE NoLabels, err |-> NoError]

RECURSIVE NamespacesInOrder(_, _)
NamespacesInOrder(objects, i) ==
    IF i > Len(NamespaceOrder) THEN <<>>
    ELSE (IF \E o \in objects : o.name = NamespaceOrder[i]
             THEN <<CHOOSE o \in objects : o.name = NamespaceOrder[i]>>
             ELSE <<>>)
         \o NamespacesInOrder(objects, i + 1)

\* Client.GetNamespacesByLabels: Namespaces().List with an equality selector
ClientGetNamespacesByLabels(c, labelSelectors, down) ==
    IF "namespaces" \in down
    THEN [items |-> <<>>, err |-> Errorf("failed to list namespaces")]
    ELSE [items |-> NamespacesInOrder({o \in c.namespaces : Matches(o.labels, labelSelectors)}, 1),
          err |-> NoError]

NamespaceResponse(items) == [namespaces |-> items, count |-> Len(items)]

ServiceGetNamespacesByLabels(c, labelSelectors, down) ==
    LET convert(r) ==
            IF r.err # NoError THEN [response |-> NamespaceResponse(<<>>), err |-> r.err]
            ELSE [response |-> NamespaceResponse(r.items), err |-> NoError]
    IN convert(ClientGetNamespacesByLabels(c, labelSelectors, down))

\* what the handler wrote, and whether it called the namespace service
NamespacesAnswer(status, error, response, queried) ==
    [op |-> "NAMESPACES", status |-> status, error |-> error,
     namespaces |-> response.namespaces, count |-> response.count, queried |-> queried]

HandleGetNamespacesByLabels(c, body, down) ==
    LET respond(r) ==
            IF r.err # NoError
            THEN NamespacesAnswer(500, "Kubernetes API Error", NamespaceResponse(<<>>), TRUE)
            ELSE NamespacesAnswer(200, "", r.response, TRUE)
        validate(req) ==
            IF req.err # NoError
            THEN NamespacesAnswer(400, "Invalid JSON", NamespaceResponse(<<>>), FALSE)
            ELSE IF DOMAIN req.labels = {}
            THEN NamespacesAnswer(400, "Validation Error", NamespaceResponse(<<>>), FALSE)
            ELSE respond(ServiceGetNamespacesByLabels(c, req.labels, down))
    IN validate(Decode(body))

\* the cluster as the namespace service finds it: namespaces labelled by
\* administrators, no workloads
InitNamespaces ==
    /\ namespaces \in {{[name |-> NamespaceOrder[1], labels |-> l1],
                        [name |-> NamespaceOrder[2], labels |-> l2]} :
                           l1 \in NamespaceLabelSets, l2 \in NamespaceLabelSets}
    /\ deployments = {}
    /\ services = {}
    /\ vms = {}
    /\ secrets = {}
    /\ resp = Response("none", <<>>, 0, "")
    /\ proc = Running([port |-> DefaultPort, host |-> DefaultHost])
    /\ calls = NoCalls

NamespaceFaults == {Healthy, {"namespaces"}}

\* the response is kept with the request it answers
NamespacesRequest(body, down) ==
    /\ body \in Bodies
    /\ NamespaceServing
    /\ resp' = [answer |-> HandleGetNamespacesByLabels(Cluster, body, down),
                body |-> body, down |-> down]
    /\ UNCHANGED <<namespaces, deployments, services, vms, secrets, proc, calls>>

NextNamespaces == \E body \in Bodies, down \in NamespaceFaults : NamespacesRequest(body, down)

SpecNamespaces == InitNamespaces /\ [][NextNamespaces]_vars

(***************************************************************************)
(* C15 -- POST /api/v1/namespaces: a body that is not valid JSON, or whose *)
(* labels are missing or empty, is answered 400 without a call to          *)
(* Kubernetes; any other body is answered 500 if the list call fails and   *)
(* otherwise 200 with exactly the namespaces whose labels contain every    *)
(* requested pair, count being their number.                               *)
(* Violated: Decode stops after the first JSON value, so a body with bytes *)
(* after a well-formed value is not valid JSON and is still served.        *)
(***************************************************************************)
\* the body as a whole is one JSON value
ValidJSON(body) == body.wellFormed /\ ~body.trailing

AnsweredAsClaimed(c, body, down, answer) ==
    IF ~ValidJSON(body) \/ ~body.hasLabels \/ DOMAIN body.labels = {}
    THEN answer.status = 400 /\ ~answer.queried
    ELSE IF "namespaces" \in down
    THEN answer.status = 500
    ELSE /\ answer.status = 200
         /\ Elements(answer.namespaces) =
                {o \in c.namespaces :
                    \A k \in DOMAIN body.labels :
                        k \in DOMAIN o.labels /\ o.labels[k] = body.labels[k]}
         /\ answer.count = Cardinality(Elements(answer.namespaces))
         /\ answer.count = Len(answer.namespaces)

C15_NamespacesByLabels ==
    "answer" \in DOMAIN resp => AnsweredAsClaimed(Cluster, resp.body, resp.down, resp.answer)

(***************************************************************************)
(* Deployment service: GET /api/v1/health                                  *)
(***************************************************************************)
HandleHealthCheckUnavailable ==
    [op |-> "HEALTH", id |-> <<>>, status |-> 503, code |-> "", kind |-> "", list |-> NoList,
     health |-> "unhealthy"]

\* the handler reads neither the cluster nor the deployment service
HandleHealthCheck ==
    [op |-> "HEALTH", id |-> <<>>, status |-> 200, code |-> "", kind |-> "", list |-> NoList,
     health |-> "healthy"]

\* the probe is answered whatever API resources are failing meanwhile; the
\* response is kept with the failures it was given under
HealthCheckRequest(down) ==
    /\ down \subseteq Resources
    /\ DeploymentServing
    /\ resp' = HandleHealthCheck @@ [down |-> down]
    /\ UNCHANGED <<namespaces, deployments, services, vms, secrets, proc, calls>>

HealthProbe == \E down \in {Healthy, Resources} \cup FaultSets : HealthCheckRequest(down)

NextHealth == NextFault \/ HealthProbe

SpecHealth == Init /\ [][NextHealth]_vars

(***************************************************************************)
(* C16 -- GET /api/v1/health of the deployment service answers 200 with    *)
(* status "healthy" in every state, also while every resource of the       *)
(* Kubernetes API is failing; it consults neither the deployment service   *)
(* nor the client.                                                         *)
(***************************************************************************)
C16_HealthAlwaysHealthy ==
    /\ HandleHealthCheck.status = 200
    /\ HandleHealthCheck.health = "healthy"
    /\ resp.op = "HEALTH" => (resp.status = 200 /\ resp.health = "healthy")

\* the probe was answered while the whole API was failing and the cluster
\* held workloads with one id twice
C16_Witness ==
    /\ resp.op = "HEALTH"
    /\ resp.down = Resources
    /\ resp.status = 200
    /\ \E id \in IDs : WorkloadCount(id) = 2

(***************************************************************************)
(* main: configuration, client, the two listeners, shutdown                *)
(***************************************************************************)
\* SERVER_PORT and SERVER_HOST as the environment gives them
EnvPorts ==
    {[kind |-> "unset", value |-> 0], [kind |-> "text", value |-> 0]}
    \cup [kind : {"number"}, value : {-1, 0, 1, NamespacePort, MaxPort, MaxPort + 1}]

EnvHosts == {"", "localhost"}

Environments == [port : EnvPorts, host : EnvHosts]

getEnv(value, fallback) == IF value # "" THEN value ELSE fallback

\* strconv.Atoi succeeds on numbers only
getEnvAsInt(v, fallback) == IF v.kind = "number" THEN v.value ELSE fallback

LoadConfig(env) ==
    [port |-> getEnvAsInt(env.port, DefaultPort), host |-> getEnv(env.host, DefaultHost)]

\* main has loaded the configuration; nothing else exists yet
InitMain ==
    /\ namespaces = {NamespaceObject(DefaultNamespace)}
    /\ deployments = {}
    /\ services = {}
    /\ vms = {}
    /\ secrets = {PreexistingSecret}
    /\ resp = Response("none", <<>>, 0, "")
    /\ calls = NoCalls
    /\ \E env \in Environments :
           proc = [pc |-> "start", cfg |-> LoadConfig(env), client |-> FALSE, exitCode |-> 0,
                   deploymentServer |-> "none", namespaceServer |-> "none",
                   deploymentErr |-> "empty", namespaceErr |-> "empty", shutdownErrors |-> 0]

\* a listener of a process that ends is gone with it
Stopped(server) == IF server \in {"created", "serving"} THEN "stopped" ELSE server

ExitedListenersKept(p, code) == [p EXCEPT !.pc = "exited", !.exitCode = code]

\* os.Exit(code), also through logger.Fatal
Exited(p, code) ==
    [p EXCEPT !.pc = "exited", !.exitCode = code,
              !.deploymentServer = Stopped(@), !.namespaceServer = Stopped(@)]

Alive == proc.pc # "exited"

Unchanged == UNCHANGED <<namespaces, deployments, services, vms, secrets, resp, calls>>

\* cfg.Validate(); os.Exit(1) on error
ValidateConfig ==
    /\ proc.pc = "start"
    /\ proc' = IF Validate(proc.cfg) # NoError THEN Exited(proc, 1)
               ELSE [proc EXCEPT !.pc = "logger"]
    /\ Unchanged

\* initLogger: zapConfig.Build() may fail
InitLogger(ok) ==
    /\ proc.pc = "logger"
    /\ proc' = IF ok THEN [proc EXCEPT !.pc = "client"] ELSE Exited(proc, 1)
    /\ Unchanged

\* k8s.NewClient, then the services, routers and servers, and the two
\* goroutines are started; main waits for a signal
NewClient(ok) ==
    /\ proc.pc = "client"
    /\ proc' = IF ok
               THEN [proc EXCEPT !.pc = "waiting", !.client = TRUE,
                                 !.deploymentServer = "created", !.namespaceServer = "created"]
               ELSE Exited(proc, 1)
    /\ Unchanged

\* both listeners bind cfg.Server.Host; the ports are cfg.Server.Port and 8081
AddressInUse(p, other) == p.cfg.port = NamespacePort /\ other = "serving"

\* ListenAndServe in the deployment goroutine; logger.Fatal on an error
ListenAndServeDeployment(ok) ==
    /\ Alive
    /\ proc.deploymentServer = "created"
    /\ proc' = IF ok /\ ~AddressInUse(proc, proc.namespaceServer)
               THEN [proc EXCEPT !.deploymentServer = "serving"]
               ELSE Exited([proc EXCEPT !.deploymentServer = "failed"], 1)
    /\ Unchanged

ListenAndServeNamespace(ok) ==
    /\ Alive
    /\ proc.namespaceServer = "created"
    /\ proc' = IF ok /\ ~AddressInUse(proc, proc.deploymentServer)
               THEN [proc EXCEPT !.namespaceServer = "serving"]
               ELSE Exited([proc EXCEPT !.namespaceServer = "failed"], 1)
    /\ Unchanged

\* ListenAndServe returns an error other than ErrServerClosed while serving
ServeFailsDeployment ==
    /\ Alive
    /\ proc.deploymentServer = "serving"
    /\ proc' = Exited([proc EXCEPT !.deploymentServer = "failed"], 1)
    /\ Unchanged

ServeFailsNamespace ==
    /\ Alive
    /\ proc.namespaceServer = "serving"
    /\ proc' = Exited([proc EXCEPT !.namespaceServer = "failed"], 1)
    /\ Unchanged

\* SIGINT or SIGTERM: <-quit returns, both Shutdown goroutines are started
Signal ==
    /\ proc.pc = "waiting"
    /\ proc' = [proc EXCEPT !.pc = "shutdown"]
    /\ Unchanged

Closed(server) == IF server \in {"created", "serving"} THEN "closed" ELSE server

\* deploymentErr <- deploymentServer.Shutdown(ctx)
ShutdownDeployment(failed) ==
    /\ proc.pc = "shutdown"
    /\ proc.deploymentErr = "empty"
    /\ proc' = [proc EXCEPT !.deploymentServer = Closed(@),
                            !.deploymentErr = IF failed THEN "error" ELSE "nil"]
    /\ Unchanged

ShutdownNamespace(failed) ==
    /\ proc.pc = "shutdown"
    /\ proc.namespaceErr = "empty"
    /\ proc' = [proc EXCEPT !.namespaceServer = Closed(@),
                            !.namespaceErr = IF failed THEN "error" ELSE "nil"]
    /\ Unchanged

FinishedAfterFirst(p) ==
    IF p.deploymentErr = "taken" \/ p.namespaceErr = "taken"
    THEN Exited(p, IF p.shutdownErrors > 0 THEN 1 ELSE 0)
    ELSE p

\* main after the wait loop has received from both channels
Finished(p) ==
    IF p.deploymentErr = "taken" /\ p.namespaceErr = "taken"
    THEN Exited(p, IF p.shutdownErrors > 0 THEN 1 ELSE 0)
    ELSE p

\* one iteration of the wait loop: a receive from either channel
ReceiveDeploymentErr ==
    /\ proc.pc = "shutdown"
    /\ proc.deploymentErr \in {"nil", "error"}
    /\ proc' = Finished([proc EXCEPT !.deploymentErr = "taken",
                                     !.shutdownErrors = @ + (IF proc.deploymentErr = "error" THEN 1 ELSE 0)])
    /\ Unchanged

ReceiveNamespaceErr ==
    /\ proc.pc = "shutdown"
    /\ proc.namespaceErr \in {"nil", "error"}
    /\ proc' = Finished([proc EXCEPT !.namespaceErr = "taken",
                                     !.shutdownErrors = @ + (IF proc.namespaceErr = "error" THEN 1 ELSE 0)])
    /\ Unchanged

NextMain ==
    \/ ValidateConfig
    \/ \E ok \in BOOLEAN : InitLogger(ok)
    \/ \E ok \in BOOLEAN : NewClient(ok)
    \/ \E ok \in BOOLEAN : ListenAndServeDeployment(ok)
    \/ \E ok \in BOOLEAN : ListenAndServeNamespace(ok)
    \/ ServeFailsDeployment
    \/ ServeFailsNamespace
    \/ Signal
    \/ \E failed \in BOOLEAN : ShutdownDeployment(failed)
    \/ \E failed \in BOOLEAN : ShutdownNamespace(failed)
    \/ ReceiveDeploymentErr
    \/ ReceiveNamespaceErr

SpecMain == InitMain /\ [][NextMain]_vars

(***************************************************************************)
(* C17 -- The two listeners are independent: when one listener fails to    *)
(* bind or to serve, the other one, if it is serving, goes on serving.     *)
(* Violated: each goroutine answers an error of ListenAndServe with        *)
(* logger.Fatal, which ends the process and with it the other listener.    *)
(***************************************************************************)
C17_ListenersIndependent ==
    [][/\ (proc.deploymentServer # "failed" /\ proc'.deploymentServer = "failed"
             /\ proc.namespaceServer = "serving") => proc'.namespaceServer = "serving"
       /\ (proc.namespaceServer # "failed" /\ proc'.namespaceServer = "failed"
             /\ proc.deploymentServer = "serving") => proc'.deploymentServer = "serving"]_vars

DeploymentListenerFails == proc.deploymentServer # "failed" /\ proc'.deploymentServer = "failed"

NamespaceListenerFails == proc.namespaceServer # "failed" /\ proc'.namespaceServer = "failed"

\* C17, as the code has it: a listener that fails to bind or to serve ends
\* the process with status 1, and no listener serves afterwards.
C17_ListenerFailureEndsProcess ==
    [][(DeploymentListenerFails \/ NamespaceListenerFails) =>
           /\ proc'.pc = "exited"
           /\ proc'.exitCode = 1
           /\ proc'.deploymentServer # "serving"
           /\ proc'.namespaceServer # "serving"]_vars

\* the namespace listener failed on a free port of its own while the
\* deployment listener existed
C17_Witness ==
    /\ proc.pc = "exited"
    /\ proc.cfg.port # NamespacePort
    /\ proc.namespaceServer = "failed"
    /\ proc.deploymentServer = "stopped"

(***************************************************************************)
(* C19 -- Config.Validate accepts a configuration exactly when             *)
(* 1 <= Server.Port <= 65535 and Server.Host is non-empty, and main exits  *)
(* with status 1 before it creates the Kubernetes client or a listener     *)
(* whenever Validate rejects the loaded configuration.                     *)
(***************************************************************************)
Configs == [port : {-1, 0, 1, DefaultPort, 65535, 65536}, host : {"", DefaultHost, "localhost"}]

Acceptable(cfg) == 1 <= cfg.port /\ cfg.port <= 65535 /\ cfg.host # ""

C19_ValidateGuardsStartup ==
    /\ \A cfg \in Configs : (Validate(cfg) = NoError) <=> Acceptable(cfg)
    /\ ~Acceptable(proc.cfg) =>
           /\ proc.pc \in {"start", "exited"}
           /\ proc.pc = "exited" => proc.exitCode = 1
           /\ ~proc.client
           /\ proc.deploymentServer = "none"
           /\ proc.namespaceServer = "none"

\* main has exited on a port above the range
C19_Witness ==
    /\ proc.pc = "exited"
    /\ proc.exitCode = 1
    /\ proc.cfg.port > 65535
    /\ ~proc.client

(***************************************************************************)
(* The error predicates, applied to every kind of error value              *)
(***************************************************************************)
\* fmt.Errorf("...: %w", err): a *fmt.wrapError around err
Wrap(err) == [type |-> "error", msg |-> "wrapped", cause |-> err]

TypedErrors ==
    {NewErrDeploymentNotFound(id) : id \in IDs}
    \cup {NewErrMultipleDeploymentsFound(id, count, nss) :
              id \in IDs, count \in 2..4,
              nss \in {<<>>, <<"default", "prod">>, <<"prod", "default">>}}
    \cup {NewErrDeploymentAlreadyExists(id, ns, kind) :
              id \in IDs, ns \in {"default", "prod"},
              kind \in {DeploymentKindContainer, DeploymentKindVM}}

OtherErrors ==
    {Errorf(msg) : msg \in {"assert.AnError general error for testing",
                            "failed to list deployments", "unsupported deployment kind"}}
    \cup {Wrap(err) : err \in TypedErrors}

ErrorValues == {NoError} \cup TypedErrors \cup OtherErrors

InitErrors ==
    /\ namespaces = {NamespaceObject(DefaultNamespace)}
    /\ deployments = {}
    /\ services = {}
    /\ vms = {}
    /\ secrets = {PreexistingSecret}
    /\ proc = Running([port |-> DefaultPort, host |-> DefaultHost])
    /\ calls = NoCalls
    /\ \E err \in ErrorValues : resp = [err |-> err, checked |-> FALSE]

\* the four predicates applied to the error at hand
CheckError ==
    /\ ~resp.checked
    /\ resp' = [err |-> resp.err, checked |-> TRUE,
                isNotFound |-> IsNotFoundError(resp.err),
                isMultipleFound |-> IsMultipleFoundError(resp.err),
                isAlreadyExists |-> IsAlreadyExistsError(resp.err),
                isConflict |-> IsConflictError(resp.err)]
    /\ UNCHANGED <<namespaces, deployments, services, vms, secrets, proc, calls>>

NextErrors == CheckError

SpecErrors == InitErrors /\ [][NextErrors]_vars

(***************************************************************************)
(* C18 -- For every error value: IsConflictError holds exactly when        *)
(* IsAlreadyExistsError or IsMultipleFoundError holds; IsNotFoundError,    *)
(* IsAlreadyExistsError and IsMultipleFoundError are pairwise exclusive;   *)
(* all four are false for nil and for errors of any other type.            *)
(***************************************************************************)
C18_ErrorPredicates ==
    resp.checked =>
        /\ resp.isConflict <=> (resp.isAlreadyExists \/ resp.isMultipleFound)
        /\ ~(resp.isNotFound /\ resp.isAlreadyExists)
        /\ ~(resp.isNotFound /\ resp.isMultipleFound)
        /\ ~(resp.isAlreadyExists /\ resp.isMultipleFound)
        /\ resp.err \in {NoError} \cup OtherErrors =>
               /\ ~resp.isNotFound
               /\ ~resp.isMultipleFound
               /\ ~resp.isAlreadyExists
               /\ ~resp.isConflict

\* an already-exists error was classified as a conflict
C18_Witness ==
    /\ resp.checked
    /\ resp.err \in TypedErrors
    /\ resp.isAlreadyExists
    /\ resp.isConflict

(***************************************************************************)
(* Creation while a list call of the uniqueness lookup fails               *)
(***************************************************************************)
\* the lookup lists Deployments and VirtualMachines; the list call a request
\* of one kind needs for nothing but the lookup is the one of the other kind
LookupFault(req) ==
    IF req.kind = DeploymentKindContainer THEN {"virtualmachines"} ELSE {"deployments"}

FaultyPost == \E req \in Requests, id \in IDs : PostDeployment(req, id, LookupFault(req))

NextFaultCreate == Next \/ FaultyPost

SpecFaultCreate == Init /\ [][NextFaultCreate]_vars

(***************************************************************************)
(* C20 -- If the uniqueness lookup could not be completed because a        *)
(* Kubernetes or KubeVirt list call failed, CreateDeployment returns       *)
(* "failed to validate deployment ID uniqueness" and creates nothing.      *)
(* Violated: GetDeploymentByID drops the errors of both list calls, so a   *)
(* failed list reads as "not found" and the creation proceeds.             *)
(***************************************************************************)
C20_FailedLookupCreatesNothing ==
    \A req \in Requests, id \in IDs :
        LET created == CreateDeployment(Cluster, req, id, LookupFault(req))
        IN /\ created.err = Errorf("failed to validate deployment ID uniqueness")
           /\ created.c = Cluster

(***************************************************************************)
(* C21 -- PUT /api/v1/deployments/{id} for an id that no workload carries  *)
(* fails and creates nothing: an update never brings a new deployment id   *)
(* into existence.                                                         *)
(* Violated: UpdateDeployment looks nothing up; UpdateContainer and        *)
(* UpdateVM delete by selector (nothing) and then create.                  *)
(***************************************************************************)
C21_PutNeverCreatesID ==
    [][(resp'.op = "PUT" /\ WorkloadCount(resp'.id) = 0)
           => /\ resp'.status # 200
              /\ WorkloadsOf(Cluster', resp'.id) = {}]_vars

(***************************************************************************)
(* Requests whose later steps fail                                         *)
(***************************************************************************)
\* the API resource of a later step fails: Services (after the Deployment),
\* VirtualMachines (after the SSH Secret), Namespaces (after the delete step
\* of an update)
LaterStepFaults == {{"services"}, {"virtualmachines"}, {"namespaces"}}

\* the requests sent while a resource fails: a container with ports and a VM
\* with an SSH key, in the default namespace
PartialRequests ==
    {req \in BindableRequests : req.namespace = "" /\ req.labels = NoLabels
                                 /\ (req.kind = DeploymentKindContainer => req.ports)}

FailingPost ==
    \E req \in PartialRequests, down \in LaterStepFaults : PostDeployment(req, IDA1, down)

FailingPut ==
    \E req \in PartialRequests, down \in LaterStepFaults : PutDeployment(req, IDA1, down)

\* the same requests served by healthy API servers, and DELETE
PartialTraffic ==
    \/ \E req \in PartialRequests, id \in IDs : PostDeployment(req, id, Healthy)
    \/ \E req \in PartialRequests, id \in IDs : PutDeployment(req, id, Healthy)
    \/ \E id \in IDs : DeleteDeploymentRequest(id, Healthy)

NextPartial == PartialTraffic \/ FailingPost \/ FailingPut

SpecPartial == Init /\ [][NextPartial]_vars

(***************************************************************************)
(* C22 -- No operation retries or rolls back.  When a later step of a      *)
(* multi-step operation fails, the caller gets the error and the effects   *)
(* of the earlier steps remain:                                            *)
(*  - Service creation fails after the Deployment was created: the         *)
(*    Deployment stays, no Service is added;                               *)
(*  - VirtualMachine creation fails after the SSH Secret was created: the  *)
(*    Secret stays, no VirtualMachine is added;                            *)
(*  - the re-creation of an update fails after its delete step: the        *)
(*    workload that was deleted stays deleted.                             *)
(* Stated for every partial request and id in every reachable state.       *)
(***************************************************************************)
CarriedBy(objects, ns, id) == {o \in objects : o.namespace = ns /\ Carries(o, id)}

FreeSecretName(c, ns, id) ==
    \E t \in SecretSuffixes : ~ObjectExists(c.secrets, ns, generateSecretName(id, t))

ServiceStepFails(c, req, id) ==
    LET h == HandleCreateDeployment(c, req, id, {"services"})
    IN (req.kind = DeploymentKindContainer /\ WorkloadsOf(c, id) = {}) =>
           /\ h.resp.status = 500
           /\ h.resp.code = "DEPLOYMENT_FAILED"
           /\ h.c.services = c.services
           /\ Cardinality(CarriedBy(h.c.deployments, DefaultNamespace, id)) = 1
           /\ c.deployments \subseteq h.c.deployments

VMStepFails(c, req, id) ==
    LET h == HandleCreateDeployment(c, req, id, {"virtualmachines"})
    IN (/\ req.kind = DeploymentKindVM
        /\ CarriedBy(c.deployments, DefaultNamespace, id) = {}
        /\ CarriedBy(c.deployments, "prod", id) = {}
        /\ FreeSecretName(c, DefaultNamespace, id)) =>
           /\ h.resp.status = 500
           /\ h.resp.code = "DEPLOYMENT_FAILED"
           /\ h.c.vms = c.vms
           /\ c.secrets \subseteq h.c.secrets
           /\ Cardinality(CarriedBy(h.c.secrets \ c.secrets, DefaultNamespace, id)) = 1

RecreationFails(c, req, id) ==
    LET h == HandleUpdateDeployment(c, req, id, {"namespaces"})
        workloads(cl) == IF req.kind = DeploymentKindContainer THEN cl.deployments ELSE cl.vms
    IN CarriedBy(workloads(c), DefaultNamespace, id) # {} =>
           /\ h.resp.status = 500
           /\ h.resp.code = "UPDATE_FAILED"
           /\ CarriedBy(workloads(h.c), DefaultNamespace, id) = {}
           /\ workloads(h.c) \subseteq workloads(c)

C22_NoRollback ==
    \A req \in PartialRequests, id \in IDs :
        /\ ServiceStepFails(Cluster, req, id)
        /\ VMStepFails(Cluster, req, id)
        /\ RecreationFails(Cluster, req, id)

\* a POST was answered 500 and left a Deployment without its Service, and a
\* Secret without its VirtualMachine is left as well
C22_Witness ==
    /\ resp.status = 500
    /\ \E d \in deployments :
           /\ Carries(d, IDA1)
           /\ CarriedBy(services, d.namespace, IDA1) = {}
    /\ \E s \in secrets : Carries(s, IDA1) /\ CarriedBy(vms, s.namespace, IDA1) = {}

(***************************************************************************)
(* The shutdown of main, with the scheduler running every goroutine that   *)
(* can run: a Shutdown that was started returns (its context ends after    *)
(* 30 seconds at the latest), and a receive that can happen does happen    *)
(***************************************************************************)
SpecMainFair ==
    /\ SpecMain
    /\ WF_vars(\E failed \in BOOLEAN : ShutdownDeployment(failed))
    /\ WF_vars(\E failed \in BOOLEAN : ShutdownNamespace(failed))
    /\ WF_vars(ReceiveDeploymentErr)
    /\ WF_vars(ReceiveNamespaceErr)

BothShutdownsReturned == proc.deploymentErr # "empty" /\ proc.namespaceErr # "empty"

BothResultsReceived(p) == p.deploymentErr = "taken" /\ p.namespaceErr = "taken"

\* the process ends in this step, after the signal
ExitsAfterSignal == proc.pc = "shutdown" /\ proc'.pc = "exited"

(***************************************************************************)
(* C23 -- After the signal the process exits only after both Shutdown      *)
(* calls have returned and their results were received, with status 1      *)
(* exactly when a Shutdown returned an error.                              *)
(* Violated: a listener goroutine that meets an error before its server is *)
(* shut down calls logger.Fatal and ends the process with status 1 while   *)
(* no Shutdown has returned an error.                                      *)
(***************************************************************************)
C23_ExitOnlyAfterBothShutdowns ==
    [][ExitsAfterSignal =>
           /\ BothResultsReceived(proc')
           /\ proc'.exitCode = 1 <=> proc'.shutdownErrors > 0]_vars

\* C23, as the code has it: unless a listener fails first (status 1), the
\* process exits after the wait loop has received one result from each
\* Shutdown, with status 1 exactly when a Shutdown returned an error and
\* status 0 otherwise; once both Shutdowns have returned the process exits.
C23_ShutdownCompletes ==
    /\ [][ExitsAfterSignal =>
              IF DeploymentListenerFails \/ NamespaceListenerFails
              THEN proc'.exitCode = 1
              ELSE /\ BothResultsReceived(proc')
                   /\ proc'.exitCode = (IF proc'.shutdownErrors > 0 THEN 1 ELSE 0)]_vars
    /\ (proc.pc = "shutdown" /\ BothShutdownsReturned) ~> (proc.pc = "exited")

\* both results were received, one of them an error, and main exited with 1
C23_Witness ==
    /\ proc.pc = "exited"
    /\ BothResultsReceived(proc)
    /\ proc.shutdownErrors = 1
    /\ proc.exitCode = 1
    /\ proc.deploymentServer = "closed"
    /\ proc.namespaceServer = "closed"

(***************************************************************************)
(* VM requests that name an SSH key Secret                                 *)
(***************************************************************************)
\* ssh_public_key: absent, well-formed, malformed (one field), empty
PublicKeys == {NilString, Ptr(<<"ssh-rsa", "AAAA">>), Ptr(<<"garbage">>), Ptr(<<>>)}

\* ssh_key_name: absent, the Secret of the administrator, a name no Secret
\* has yet
KeyNames == {NilString, Ptr(PreexistingSecret.name), Ptr(<<"k", "2">>)}

KeyedVMRequests ==
    [kind : {DeploymentKindVM}, name : Names, namespace : {""},
     labels : {NoLabels}, ports : {FALSE},
     vm : [ram : VMSizes, cpu : VMSizes, sshKeyName : KeyNames, sshPublicKey : PublicKeys],
     hasSpec : {TRUE}]

PostKeyedVM == \E req \in KeyedVMRequests, id \in IDs : PostDeployment(req, id, Healthy)

PutKeyedVM == \E req \in KeyedVMRequests, id \in IDs : PutDeployment(req, id, Healthy)

NextKeys ==
    \/ PostKeyedVM
    \/ PutKeyedVM
    \/ \E id \in IDs : GetDeployment(id, Healthy)
    \/ \E id \in IDs : DeleteDeploymentRequest(id, Healthy)

SpecKeys == Init /\ [][NextKeys]_vars

(***************************************************************************)
(* C24 -- When ssh_key_name names a Secret that exists in the target       *)
(* namespace, CreateVM uses it unchanged and ignores ssh_public_key: the   *)
(* outcome (success, the VirtualMachine, no Secret created or modified) is *)
(* the same for every value of the public key, absent and malformed ones   *)
(* included.                                                               *)
(* Violated: ensureSSHKeySecret validates the public key before it looks   *)
(* for the Secret, so a malformed or empty key fails the request.          *)
(***************************************************************************)
NamesExistingSecret(c, req) ==
    /\ req.vm.sshKeyName.set
    /\ ObjectExists(c.secrets, OrDefault(req.namespace), req.vm.sshKeyName.val)

WithPublicKey(req, key) == [req EXCEPT !.vm.sshPublicKey = key]

C24_ExistingSecretIgnoresKey ==
    \A req \in KeyedVMRequests, id \in IDs :
        (NamesExistingSecret(Cluster, req) /\ WorkloadCount(id) = 0) =>
            \A key \in PublicKeys :
                LET h == HandleCreateDeployment(Cluster, WithPublicKey(req, key), id, Healthy)
                IN /\ h.resp.status = 201
                   /\ h.c.secrets = secrets
                   /\ h = HandleCreateDeployment(Cluster, req, id, Healthy)

(***************************************************************************)
(* Two handlers in flight: each call of the API server is a step of its    *)
(* own, in the order of CreateDeployment / UpdateDeployment for containers *)
(***************************************************************************)
\* two container requests for a namespace that does not exist at the start
ConcurrentRequests ==
    {[kind |-> DeploymentKindContainer, name |-> "web", namespace |-> "prod",
      labels |-> NoLabels, ports |-> FALSE, vm |-> NoVM, hasSpec |-> TRUE],
     [kind |-> DeploymentKindContainer, name |-> "db", namespace |-> "prod",
      labels |-> NoLabels, ports |-> TRUE, vm |-> NoVM, hasSpec |-> TRUE]}

\* uuid.New() of the handler in slot i: two handlers never draw the same id
NewID(i) == IF i = 1 THEN IDA1 ELSE IDB

\* existed: whether one workload carried the id when the request arrived
Call(op, req, id, pc) ==
    [pc |-> pc, op |-> op, req |-> req, id |-> id, status |-> 0, err |-> NoError,
     existed |-> WorkloadCount(id) = 1]

\* the handler has written its response
Done(call, status, err) == [call EXCEPT !.pc = "done", !.status = status, !.err = err]

Succeeded(call) == Done(call, IF call.op = "POST" THEN 201 ELSE 200, NoError)

ClusterBecomes(c) ==
    /\ namespaces' = c.namespaces
    /\ deployments' = c.deployments
    /\ services' = c.services
    /\ vms' = c.vms
    /\ secrets' = c.secrets

At(i, pc) == DeploymentServing /\ calls[i].pc = pc

\* POST arrives: bound, spec parsed, id drawn; the uniqueness lookup is next
BeginPost(i, req) ==
    /\ DeploymentServing
    /\ calls[i].pc \in {"idle", "done"}
    /\ ShouldBindJSON(req) /\ parseAndValidateSpec(req) = NoError
    /\ calls' = [calls EXCEPT ![i] = Call("POST", WithDefaultNamespace(req), NewID(i), "lookup")]
    /\ UNCHANGED <<namespaces, deployments, services, vms, secrets, resp, proc>>

\* PUT arrives: UpdateContainer starts with DeleteContainer
BeginPut(i, req, id) ==
    /\ DeploymentServing
    /\ calls[i].pc \in {"idle", "done"}
    /\ ShouldBindJSON(req) /\ parseAndValidateSpec(req) = NoError
    /\ calls' = [calls EXCEPT ![i] = Call("PUT", WithDefaultNamespace(req), id, "deleteDeployments")]
    /\ UNCHANGED <<namespaces, deployments, services, vms, secrets, resp, proc>>

\* GetDeploymentByID in CreateDeployment
LookupStep(i) ==
    /\ At(i, "lookup")
    /\ LET existing == GetDeploymentByID(Cluster, calls[i].id, Healthy)
       IN calls' = [calls EXCEPT ![i] =
                       IF existing.err = NoError
                       THEN Done(@, 409, NewErrDeploymentAlreadyExists(@.id, existing.resp.namespace,
                                                                      existing.resp.kind))
                       ELSE IF IsMultipleFoundError(existing.err) THEN Done(@, 409, existing.err)
                       ELSE IF ~IsNotFoundError(existing.err)
                       THEN Done(@, 500, Errorf("failed to validate deployment ID uniqueness"))
                       ELSE [@ EXCEPT !.pc = "getNamespace"]]
    /\ UNCHANGED <<namespaces, deployments, services, vms, secrets, resp, proc>>

Selected(call, o) ==
    o.namespace = call.req.namespace /\ Matches(o.labels, BuildDeploymentSelector(call.id))

\* Deployments(namespace).DeleteCollection(selector)
DeleteDeploymentsStep(i) ==
    /\ At(i, "deleteDeployments")
    /\ deployments' = {o \in deployments : ~Selected(calls[i], o)}
    /\ calls' = [calls EXCEPT ![i].pc = "deleteServices"]
    /\ UNCHANGED <<namespaces, services, vms, secrets, resp, proc>>

\* Services(namespace).List(selector) and a Delete of each
DeleteServicesStep(i) ==
    /\ At(i, "deleteServices")
    /\ services' = {o \in services : ~Selected(calls[i], o)}
    /\ calls' = [calls EXCEPT ![i].pc = "getNamespace"]
    /\ UNCHANGED <<namespaces, deployments, vms, secrets, resp, proc>>

\* ensureNamespace: Namespaces().Get
GetNamespaceStep(i) ==
    /\ At(i, "getNamespace")
    /\ calls' = [calls EXCEPT ![i].pc = IF NamespaceExists(Cluster, calls[i].req.namespace)
                                        THEN "createDeployment" ELSE "createNamespace"]
    /\ UNCHANGED <<namespaces, deployments, services, vms, secrets, resp, proc>>

\* ensureNamespace: Namespaces().Create, after Get found nothing
CreateNamespaceStep(i) ==
    /\ At(i, "createNamespace")
    /\ IF NamespaceExists(Cluster, calls[i].req.namespace)
       THEN /\ calls' = [calls EXCEPT ![i] = Done(@, 500, Errorf("failed to ensure namespace"))]
            /\ UNCHANGED namespaces
       ELSE /\ calls' = [calls EXCEPT ![i].pc = "createDeployment"]
            /\ namespaces' = namespaces \cup {NamespaceObject(calls[i].req.namespace)}
    /\ UNCHANGED <<deployments, services, vms, secrets, resp, proc>>

CreateDeploymentStep(i) ==
    /\ At(i, "createDeployment")
    /\ LET call == calls[i]
           r == createDeployment(Cluster, call.req.name, call.req.namespace, call.req.labels,
                                 call.id, Healthy)
       IN /\ ClusterBecomes(r.c)
          /\ calls' = [calls EXCEPT ![i] =
                          IF r.err # NoError THEN Done(@, 500, Errorf("failed to create deployment"))
                          ELSE IF call.req.ports THEN [@ EXCEPT !.pc = "createService"]
                          ELSE Succeeded(@)]
    /\ UNCHANGED <<resp, proc>>

CreateServiceStep(i) ==
    /\ At(i, "createService")
    /\ LET call == calls[i]
           r == createService(Cluster, call.req.name, call.req.namespace, call.req.labels,
                              call.id, Healthy)
       IN /\ ClusterBecomes(r.c)
          /\ calls' = [calls EXCEPT ![i] =
                          IF r.err # NoError THEN Done(@, 500, Errorf("failed to create service"))
                          ELSE Succeeded(@)]
    /\ UNCHANGED <<resp, proc>>

NextConcurrent ==
    \E i \in Slots :
        \/ \E req \in ConcurrentRequests : BeginPost(i, req)
        \/ \E req \in ConcurrentRequests : BeginPut(i, req, IDA1)
        \/ LookupStep(i)
        \/ DeleteDeploymentsStep(i)
        \/ DeleteServicesStep(i)
        \/ GetNamespaceStep(i)
        \/ CreateNamespaceStep(i)
        \/ CreateDeploymentStep(i)
        \/ CreateServiceStep(i)

SpecConcurrent == Init /\ [][NextConcurrent]_vars

(***************************************************************************)
(* C25 -- Two concurrent PUT requests for the same existing id, namespace  *)
(* and kind with different metadata.name leave exactly one deployment      *)
(* carrying the id, as either sequential order would.                      *)
(* Violated: both handlers delete, then both create; the Deployments have  *)
(* different names, so both creations succeed.                             *)
(***************************************************************************)
AnsweredPut(call) ==
    call.pc = "done" /\ call.op = "PUT" /\ call.status = 200 /\ call.existed

C25_ConcurrentPutsKeepOneWorkload ==
    (/\ AnsweredPut(calls[1])
     /\ AnsweredPut(calls[2])
     /\ calls[1].id = calls[2].id
     /\ calls[1].req.namespace = calls[2].req.namespace
     /\ calls[1].req.name # calls[2].req.name)
        => WorkloadCount(calls[1].id) = 1

(***************************************************************************)
(* C26 -- Two concurrent create requests for a namespace that does not     *)
(* exist yet both succeed: no create request fails because the namespace   *)
(* was created by the other one between its own existence check and its    *)
(* own create call.                                                        *)
(* Violated: ensureNamespace treats every error of Create as a failure,    *)
(* AlreadyExists included.                                                 *)
(***************************************************************************)
C26_ConcurrentCreatesShareNamespace ==
    \A i \in Slots :
        (calls[i].pc = "done" /\ calls[i].op = "POST")
            => calls[i].err # Errorf("failed to ensure namespace")

(***************************************************************************)
(* C27 -- Deployments never become undeletable: in every state reachable   *)
(* through POST, PUT and DELETE requests, for every id that a Deployment   *)
(* or VirtualMachine carries, DELETE /api/v1/deployments/{id} answers 204  *)
(* and leaves no Deployment or VirtualMachine carrying the id.             *)
(* Violated: after a PUT of the other kind a Deployment and a              *)
(* VirtualMachine carry the id, and every DELETE is answered 409.          *)
(***************************************************************************)
C27_AlwaysDeletable ==
    \A id \in IDs :
        WorkloadCount(id) >= 1 =>
            /\ HandleDeleteDeployment(Cluster, id, Healthy).resp.status = 204
            /\ WorkloadsOf(HandleDeleteDeployment(Cluster, id, Healthy).c, id) = {}

(***************************************************************************)
(* C28 -- The service deletes exactly the SSH Secrets it created: every    *)
(* Secret that CreateVM created (it carries the labels of the deployment), *)
(* under a generated name or under a user-chosen key name, is gone once    *)
(* the deployment of its VM was deleted with 204, and a Secret the service *)
(* did not create is never deleted.                                        *)
(* Violated: only a Secret with a generated name marks its VM with         *)
(* ssh-secret-created; one created under a user-chosen name is left.       *)
(***************************************************************************)
Deleted204 == resp'.op = "DELETE" /\ resp'.status = 204

\* the Secret s is the one the VirtualMachine v refers to
SecretOf(v, s) == s.namespace = v.namespace /\ s.name = v.secret

C28_DeletesTheSecretsItCreated ==
    [][Deleted204 =>
           /\ \A v \in vms \ vms' : \A s \in secrets :
                  (SecretOf(v, s) /\ Carries(s, resp'.id)) => s \notin secrets'
           /\ \A s \in secrets : ~Carries(s, resp'.id) => s \in secrets']_vars

Marked(v) ==
    LabelSSHSecretCreated \in DOMAIN v.labels /\ v.labels[LabelSSHSecretCreated] = "true"

GeneratedName(name, id) == \E t \in SecretSuffixes : name = generateSecretName(id, t)

\* C28, as the code has it: a VirtualMachine is marked ssh-secret-created
\* exactly when CreateVM created its Secret under a generated name; deleting
\* the deployment of a marked VM deletes the Secrets labelled with the id in
\* the VM's namespace; deleting one of an unmarked VM deletes no Secret (a
\* Secret created under a user-chosen key name stays); a Secret without the
\* labels of the deployment is never deleted.
C28_DeletesGeneratedSecrets ==
    /\ [](\A v \in vms : Marked(v) <=> GeneratedName(v.secret, v.labels[LabelAppID]))
    /\ [][Deleted204 =>
              /\ \A v \in vms \ vms' :
                     IF Marked(v)
                     THEN \A s \in secrets :
                              (s.namespace = v.namespace /\ Carries(s, resp'.id)) => s \notin secrets'
                     ELSE secrets' = secrets
              /\ \A s \in secrets : ~Carries(s, resp'.id) => s \in secrets']_vars

\* a deployment whose Secret was created under a user-chosen name was
\* deleted, and the Secret is still there
C28_Witness ==
    /\ resp.op = "DELETE"
    /\ resp.status = 204
    /\ WorkloadCount(resp.id) = 0
    /\ \E s \in secrets : Carries(s, resp.id) /\ s.name = <<"k", "2">>

(***************************************************************************)
(* PUT /api/v1/deployments/{id} with ids of any length                     *)
(***************************************************************************)
\* c.Param("id") is any non-empty path segment
ShortID == <<"a", "b", "c">>

PathIDs == IDs \cup {ShortID}

PutPathID == \E req \in PartialRequests, id \in PathIDs : PutDeployment(req, id, Healthy)

GetPathID == \E id \in PathIDs : GetDeployment(id, Healthy)

DeletePathID == \E id \in PathIDs : DeleteDeploymentRequest(id, Healthy)

NextPath == PutPathID \/ GetPathID \/ DeletePathID

SpecPath == Init /\ [][NextPath]_vars

(***************************************************************************)
(* C29 -- No request makes a handler fail at run time: for every id        *)
(* accepted in the path of PUT /api/v1/deployments/{id}, ids shorter than  *)
(* 8 characters included, building the names of the Deployment and the     *)
(* Service succeeds, so no PUT is answered by the recovery middleware's    *)
(* bare 500 of a panicked handler.                                         *)
(* Violated: createDeployment slices id[:8] without a length check.        *)
(***************************************************************************)
C29_NoHandlerPanics ==
    [][resp'.op = "PUT" => resp' # Response("PUT", resp'.id, 500, "")]_vars

====
